---- MODULE Spec2Model ----
(***************************************************************************)
(* A model of rload, an HTTP load generator (src/src/main.rs,              *)
(* src/src/generator.rs).                                                  *)
(*                                                                         *)
(* tokio_main runs four kinds of process:                                  *)
(*   - the timer (task_timer, a blocking thread) turns the schedule        *)
(*     built at main.rs:204 into ticks on the step channel;                *)
(*   - the spawner loop takes a tick, takes a user token from the user     *)
(*     channel and spawns one request task;                                *)
(*   - each request task sends its request, builds a Record, gives the     *)
(*     token back and puts the Record on the record channel;               *)
(*   - the top level fills the token pool, drains the record channel into  *)
(*     BenchLog, prints the report and awaits the timer's result.          *)
(*                                                                         *)
(* Durations are kept as Rust keeps them: whole seconds and nanoseconds.   *)
(* The wall clock is a number of milliseconds since the timer's base.      *)
(***************************************************************************)
EXTENDS Integers, Sequences, FiniteSets

VARIABLES
    args,           \* the parsed command line (Args), fixed for a run
    clock,          \* milliseconds elapsed since `base` (main.rs:212)
    starts,         \* the schedule iterator the timer consumes
    offsets,        \* the offsets the iterator has yielded so far
    gen_done,       \* the iterator has returned None
    timer_pc,       \* position of the timer thread
    timer_next,     \* the offset the timer is sleeping for
    timer_result,   \* what task_timer resolves to: "running", "Ok", "Err"
    ticks_sent,     \* number of ticks put on the step channel
    step_chan,      \* ticks buffered in the step channel
    user_chan,      \* user ids buffered in the user (token) channel
    record_chan,    \* Records buffered in the record channel
    spawner_pc,     \* position of the spawner loop
    hot_gen,        \* HotGenerator
    hot_seed,       \* what rand::random() returned in HotGenerator::new
    hot_answers,    \* what HotGenerator::next has returned, call by call
    pending_hot,    \* is_hot of the request the spawner is building
    tasks,          \* the request tasks, in spawn order
    main_pc,        \* position of tokio_main
    num_warmup,     \* main.rs:202
    num_received,   \* main.rs:289
    bench_log,      \* BenchLog
    printed,        \* the lines put on stdout, by kind
    main_result,    \* what tokio_main returns: "none", "Ok", "Err"
    at_abort        \* the tasks in flight when the timer returned Err

vars == << args, clock, starts, offsets, gen_done, timer_pc, timer_next,
           timer_result, ticks_sent, step_chan, user_chan, record_chan,
           spawner_pc, hot_gen,
           hot_seed, hot_answers, pending_hot, tasks, main_pc, num_warmup,
           num_received, bench_log, printed, main_result, at_abort >>

(***************************************************************************)
(* Program constants.                                                      *)
(***************************************************************************)
RATE_INC_PER_SEC == 1000
REQ_ISSUE_SLACK_MS == 100
STEP_CHANNEL_CAP == 100
RECORD_CHANNEL_CAP == 100
NANOS_PER_SEC == 1000000000
NANOS_PER_MILLI == 1000000
MILLIS_PER_SEC == 1000
F64_MANTISSA_BITS == 53

(***************************************************************************)
(* Bounds of the model.                                                    *)
(***************************************************************************)
MaxUsers == 2       \* num_users ranges over 1..MaxUsers
MaxClock == 3       \* the clock stops after MaxClock steps of ClockStepMs
MaxTicks == 2       \* ticks of a rate = 0 run that the concurrent model follows
MaxGenRate == 12    \* the generator alone runs rates 1..MaxGenRate
MaxGenDuration == 2 \* the generator alone runs 1..MaxGenDuration seconds
MaxExtra == 2       \* outcomes fed to the aggregator beyond the warm-up
MaxSamples == 4     \* Records in the log when the percentiles are taken
MaxLatency == 3     \* the longest request, in the latency's unit
MaxCalls == 10      \* calls of HotGenerator::next in the generator's own run
HotBits == 1        \* the hot fraction and counter are multiples of 2^-HotBits

ClockStepMs == 5 * REQ_ISSUE_SLACK_MS
HotDen == 2 ^ HotBits
Rates == { 0, 1, 2 }    \* the rates the concurrent model runs

(***************************************************************************)
(* std::time::Duration: seconds and nanoseconds.                           *)
(***************************************************************************)
Dur(s, n) == [secs |-> s, nanos |-> n]

DurZero == Dur(0, 0)

DurFromSecs(s) == Dur(s, 0)

DurFromMillis(ms) ==
    Dur(ms \div MILLIS_PER_SEC, (ms % MILLIS_PER_SEC) * NANOS_PER_MILLI)

DurLt(a, b) ==
    \/ a.secs < b.secs
    \/ a.secs = b.secs /\ a.nanos < b.nanos

DurLe(a, b) == a = b \/ DurLt(a, b)

DurGt(a, b) == DurLt(b, a)

DurAdd(a, b) ==
    LET n == a.nanos + b.nanos IN
    IF n >= NANOS_PER_SEC
    THEN Dur(a.secs + b.secs + 1, n - NANOS_PER_SEC)
    ELSE Dur(a.secs + b.secs, n)

\* a - b, zero when b is later than a (Instant::elapsed, Instant - Instant)
DurSatSub(a, b) ==
    IF DurLe(a, b) THEN DurZero
    ELSE IF a.nanos >= b.nanos
         THEN Dur(a.secs - b.secs, a.nanos - b.nanos)
         ELSE Dur(a.secs - b.secs - 1, a.nanos + NANOS_PER_SEC - b.nanos)

\* 2^n modulo m, by doubling.
RECURSIVE Pow2Mod(_, _)
Pow2Mod(n, m) == IF n = 0 THEN 1 % m ELSE (2 * Pow2Mod(n - 1, m)) % m

\* The k with 2^k <= n < 2^(k+1).
RECURSIVE Log2Floor(_)
Log2Floor(n) == IF n < 2 THEN 0 ELSE 1 + Log2Floor(n \div 2)

\* 1.0 / rate as f64: the sign of the f64 quotient minus the exact 1/rate.
\* The quotient has the 53-bit significand round(2^(k+53) / rate) with
\* 2^k <= rate < 2^(k+1); it is exact when rate is a power of two, and the
\* remainder of that division is never half of rate otherwise.
RecipErrSign(rate) ==
    LET r == Pow2Mod(Log2Floor(rate) + F64_MANTISSA_BITS, rate) IN
    IF r = 0 THEN 0 ELSE IF 2 * r < rate THEN -1 ELSE 1

\* Duration::from_secs_f64(1.0 / rate as f64): the f64 quotient rounded to
\* the nearest nanosecond. When 10^9 / rate lies halfway between two
\* nanoseconds the f64 quotient decides: below the exact value it rounds
\* down, above it rounds up, equal to it the tie goes to the even nanosecond.
IatOfRate(rate) ==
    LET q == NANOS_PER_SEC \div rate
        r == NANOS_PER_SEC % rate
        ns == IF 2 * r > rate THEN q + 1
              ELSE IF 2 * r = rate
                   THEN IF RecipErrSign(rate) > 0 THEN q + 1
                        ELSE IF RecipErrSign(rate) < 0 THEN q
                        ELSE q + (q % 2)
              ELSE q
    IN  Dur(ns \div NANOS_PER_SEC, ns % NANOS_PER_SEC)

(***************************************************************************)
(* generator.rs: ConstGen.                                                 *)
(***************************************************************************)
ConstGenNew(duration, rate) ==
    [ now      |-> DurZero,
      duration |-> duration,
      iat      |-> IatOfRate(rate),
      expected |-> duration.secs * rate ]

expected_len(g) == g.expected

\* The result of ConstGen::next: the iterator afterwards and the item,
\* <<d>> for Some(d) and << >> for None.
ConstGenNext_Inclusive(g) ==
    IF DurLe(g.now, g.duration)
    THEN [gen |-> [g EXCEPT !.now = DurAdd(g.now, g.iat)],
          item |-> << DurAdd(g.now, g.iat) >>]
    ELSE [gen |-> g, item |-> << >>]

ConstGenNext(g) ==
    IF DurLt(g.now, g.duration)
    THEN [gen |-> [g EXCEPT !.now = DurAdd(g.now, g.iat)],
          item |-> << DurAdd(g.now, g.iat) >>]
    ELSE [gen |-> g, item |-> << >>]

(***************************************************************************)
(* main.rs: HotGenerator. hot_percent is a multiple of 1/HotDen, HotDen a  *)
(* power of two below 2^52. An f64 is kept as F64(units, less), the value  *)
(* units/HotDen - less * 2^-53 with less 0 or 1: rand::random() yields the *)
(* multiples of 2^-53 in [0, 1), and 1 - 2^-53 is the largest of them. On  *)
(* these values an f64 sum is exact except for a sum in (1, 2) that is an  *)
(* odd multiple of 2^-53: it is a tie between two neighbours of spacing    *)
(* 2^-52 and is rounded to the one with the even significand, which is the *)
(* upper one, units/HotDen.                                                *)
(***************************************************************************)
F64(units, less) == [units |-> units, less |-> less]

\* a + hot_percent as f64 addition gives it
F64Add(a, hot_percent) ==
    LET units == a.units + hot_percent IN
    IF a.less = 1 /\ units > HotDen THEN F64(units, 0) ELSE F64(units, a.less)

\* a >= 1.0
F64GeOne(a) == a.units > HotDen \/ (a.units = HotDen /\ a.less = 0)

\* a - 1.0, exact for a in [1, 2]
F64SubOne(a) == F64(a.units - HotDen, a.less)

\* What rand::random::<f64>() can return, as far as the model tells values
\* apart.
RandomF64 ==
    { F64(units, 0) : units \in 0 .. HotDen - 1 } \cup
    { F64(units, 1) : units \in 1 .. HotDen }

HotGeneratorNew(hot_percent, random) ==
    [hot_percent |-> hot_percent, request_counter |-> random]

\* A variant that compares with > where the code has >=.
HotGeneratorNext_Strict(h) ==
    LET c == F64Add(h.request_counter, h.hot_percent) IN
    IF F64GeOne(c) /\ c # F64(HotDen, 0)
    THEN [gen |-> [h EXCEPT !.request_counter = F64SubOne(c)], hot |-> TRUE]
    ELSE [gen |-> [h EXCEPT !.request_counter = c], hot |-> FALSE]

\* The result of HotGenerator::next: the generator afterwards and the answer.
HotGeneratorNext(h) ==
    LET c == F64Add(h.request_counter, h.hot_percent) IN
    IF F64GeOne(c)
    THEN [gen |-> [h EXCEPT !.request_counter = F64SubOne(c)], hot |-> TRUE]
    ELSE [gen |-> [h EXCEPT !.request_counter = c], hot |-> FALSE]

(***************************************************************************)
(* main.rs: Record and BenchLog.                                           *)
(***************************************************************************)
\* What request.send() and the response can turn out to be.
Outcomes == { "OkMatch", "OkBadSum", "OkBadLen", "OkBodyErr",
              "Timeout", "Status", "Transport" }

\* The failures the match at main.rs:271-280 turns into a flagged Record.
FailureOutcomes == { "Timeout", "Status", "Transport" }

\* Every way a request can fail by timeout, transport or status: the three
\* above, and "OkBodyErr", a response with a non-error status whose body
\* read fails (the client's timeout covers the body, main.rs:191, 264).
RequestFailures == FailureOutcomes \cup { "OkBodyErr" }

\* The outcomes on which the task panics (unwrap at main.rs:264, assert_eq at
\* main.rs:265 and main.rs:269).
Panics(outcome) == outcome \in { "OkBadSum", "OkBadLen", "OkBodyErr" }

\* A variant without the else at main.rs:275: a timeout is an error as well.
RecordOf_BothFlags(id, is_hot, outcome) ==
    [ id      |-> id,
      is_hot  |-> is_hot,
      timeout |-> outcome = "Timeout",
      error   |-> outcome \in FailureOutcomes,
      status  |-> IF outcome = "Status" THEN "500"
                  ELSE IF outcome \in { "Timeout", "Transport" } THEN "None"
                  ELSE "200" ]

\* The Record as the match at main.rs:261-281 leaves it. id stands for the
\* fields that tell one request from another (start, end).
RecordOf(id, is_hot, outcome) ==
    [ id      |-> id,
      is_hot  |-> is_hot,
      timeout |-> outcome = "Timeout",
      error   |-> outcome \in { "Status", "Transport" },
      status  |-> IF outcome = "Status" THEN "500"
                  ELSE IF outcome \in { "Timeout", "Transport" } THEN "None"
                  ELSE "200" ]

BenchLogNew == [records |-> << >>, timeouts |-> 0, errors |-> 0]

add_record(log, record) ==
    [ records  |-> Append(log.records, record),
      timeouts |-> IF record.timeout THEN log.timeouts + 1 ELSE log.timeouts,
      errors   |-> IF record.error THEN log.errors + 1 ELSE log.errors ]

total(log) == Len(log.records)

errors(log) == log.timeouts + log.errors

\* main.rs:195-202: the sum of RATE_INC_PER_SEC, 2 * RATE_INC_PER_SEC, ...
\* below rate, or 0 without a warm-up.
\* The percentages of main.rs:320, in tenths of a percent.
Percentages == << 500, 900, 950, 990, 999, 1000 >>

\* Vec::sort: insertion of x into a sorted sequence, and the whole sort.
RECURSIVE Insert(_, _)
Insert(sorted, x) ==
    IF sorted = << >> THEN << x >>
    ELSE IF x <= Head(sorted) THEN << x >> \o sorted
    ELSE << Head(sorted) >> \o Insert(Tail(sorted), x)

RECURSIVE Sort(_)
Sort(seq) ==
    IF seq = << >> THEN << >> ELSE Insert(Sort(Tail(seq)), Head(seq))

\* A variant that leaves out the - 1.0.
PercentileIndex_NoMinusOne(len, p) == (len * p) \div 1000

\* ((latency.len() as f64 * p - 1.0) / 100.0) as usize, p in tenths of a
\* percent: the cast truncates and turns a negative value into 0.
PercentileIndex(len, p) ==
    IF len * p - 10 < 0 THEN 0 ELSE (len * p - 10) \div 1000

\* latency.get(index).cloned().unwrap_or_default()
GetOrDefault(latency, index) ==
    IF index < Len(latency) THEN latency[index + 1] ELSE 0

\* BenchLog::latencies (main.rs:163-175)
latencies(log, percentages) ==
    LET latency == Sort([k \in 1 .. Len(log.records) |->
                            log.records[k].duration]) IN
    [j \in 1 .. Len(percentages) |->
        GetOrDefault(latency, PercentileIndex(Len(latency), percentages[j]))]

(***************************************************************************)
(* tokio_main: the state before the timer thread is spawned.               *)
(***************************************************************************)
\* The per-second rates of main.rs:195-203: unless no_warmup, the ramp
\* RATE_INC_PER_SEC, 2 * RATE_INC_PER_SEC, ... below `rate`, then `duration`
\* copies of `rate`.
RECURSIVE RampRates(_, _)
RampRates(r, rate) ==
    IF r >= rate THEN << >>
    ELSE << r >> \o RampRates(r + RATE_INC_PER_SEC, rate)

RatePerSec(a) ==
    (IF a.no_warmup THEN << >> ELSE RampRates(RATE_INC_PER_SEC, a.rate))
        \o [k \in 1 .. a.duration |-> a.rate]

RECURSIVE SumSeq(_)
SumSeq(q) == IF q = << >> THEN 0 ELSE Head(q) + SumSeq(Tail(q))

\* main.rs:200: the sum of the ramp, taken before the steady-state rates are
\* appended.
NumWarmup(no_warmup, rate) ==
    IF no_warmup THEN 0 ELSE SumSeq(RampRates(RATE_INC_PER_SEC, rate))

\* The schedule built from per-second rates (the constructor called at
\* main.rs:204): the iterator starts at offset zero and expects the sum of
\* the rates.
RampGenNew(rate_per_sec) ==
    [ now      |-> DurZero,
      rates    |-> rate_per_sec,
      expected |-> SumSeq(rate_per_sec) ]

\* The next offset of that schedule: in elapsed second s the inter-arrival
\* time is 1/rates(s); the schedule ends when s is past the last rate. With
\* every rate equal it is ConstGen::next of generator.rs.
RampGenNext(g) ==
    IF g.now.secs < Len(g.rates)
    THEN LET iat == IatOfRate(g.rates[g.now.secs + 1]) IN
         [gen |-> [g EXCEPT !.now = DurAdd(g.now, iat)],
          item |-> << DurAdd(g.now, iat) >>]
    ELSE [gen |-> g, item |-> << >>]

\* main.rs:204. With rate = 0 the schedule is built and never iterated
\* (main.rs:213-216).
StartsOf(a) == RampGenNew(RatePerSec(a))

ArgsSet ==
    [ duration    : {1},
      rate        : Rates,
      num_users   : 1 .. MaxUsers,
      no_warmup   : {FALSE},
      hot_percent : {HotDen} ]

InitState(a, random, schedule) ==
    /\ args = a
    /\ clock = 0
    /\ starts = schedule
    /\ offsets = << >>
    /\ gen_done = FALSE
    /\ timer_pc = "run"
    /\ timer_next = DurZero
    /\ timer_result = "running"
    /\ ticks_sent = 0
    /\ step_chan = 0
    /\ user_chan = << >>
    /\ record_chan = << >>
    /\ spawner_pc = "unspawned"
    /\ hot_gen = HotGeneratorNew(a.hot_percent, random)
    /\ hot_seed = random
    /\ hot_answers = << >>
    /\ pending_hot = FALSE
    /\ tasks = << >>
    /\ main_pc = "fill"
    /\ num_warmup = NumWarmup(a.no_warmup, a.rate)
    /\ num_received = 0
    /\ bench_log = BenchLogNew
    /\ printed = << >>
    /\ main_result = "none"
    /\ at_abort = {}

InitRun(a, random) == InitState(a, random, StartsOf(a))

Init == \E a \in ArgsSet : \E random \in { F64(0, 0) } : InitRun(a, random)

(***************************************************************************)
(* The wall clock. Only the timer reads it.                                *)
(***************************************************************************)
ClockAdvance ==
    /\ timer_pc # "done"
    /\ clock < MaxClock * ClockStepMs
    /\ clock' = clock + ClockStepMs
    /\ UNCHANGED << args, starts, offsets, gen_done, timer_pc, timer_next,
                    timer_result, ticks_sent, step_chan, user_chan,
                    record_chan, spawner_pc, hot_gen,
                    hot_seed, hot_answers, pending_hot, tasks,
                    main_pc, num_warmup, num_received, bench_log, printed,
                    main_result, at_abort >>

(***************************************************************************)
(* task_timer (main.rs:211-232).                                           *)
(***************************************************************************)
\* next.elapsed() > Duration::from_millis(REQ_ISSUE_SLACK_MS), main.rs:220
BehindSchedule(now_ms, start) ==
    DurGt(DurSatSub(DurFromMillis(now_ms), start),
          DurFromMillis(REQ_ISSUE_SLACK_MS))

\* The tasks that have not put their Record on the record channel yet.
InFlight == { i \in 1 .. Len(tasks) : tasks[i].pc \in { "send", "return", "report" } }

timer_unchanged ==
    UNCHANGED << args, clock, user_chan, record_chan, spawner_pc, hot_gen,
                 hot_seed, hot_answers,
                 pending_hot, tasks, main_pc, num_warmup, num_received,
                 bench_log, printed, main_result >>

\* rate = 0: the while condition holds, the thread goes on to blocking_send.
TimerUnboundedTest ==
    /\ timer_pc = "run"
    /\ args.rate = 0
    /\ clock \div MILLIS_PER_SEC < args.duration
    /\ timer_pc' = "send"
    /\ UNCHANGED << starts, offsets, gen_done, timer_next, timer_result,
                    ticks_sent, step_chan, at_abort >>
    /\ timer_unchanged

\* A variant that checks the deadline with rate = 0 as well: a send that
\* returns more than the slack after the start fails.
TimerUnboundedSend_Deadline ==
    /\ timer_pc = "send"
    /\ step_chan < STEP_CHANNEL_CAP
    /\ IF clock > REQ_ISSUE_SLACK_MS
       THEN /\ timer_pc' = "done"
            /\ timer_result' = "Err"
            /\ UNCHANGED << step_chan, ticks_sent >>
       ELSE /\ step_chan' = step_chan + 1
            /\ ticks_sent' = ticks_sent + 1
            /\ timer_pc' = "run"
            /\ UNCHANGED timer_result
    /\ UNCHANGED << starts, offsets, gen_done, timer_next, at_abort >>
    /\ timer_unchanged

\* rate = 0: blocking_send returns once the step channel has room, however
\* late that is.
TimerUnboundedSend ==
    /\ timer_pc = "send"
    /\ step_chan < STEP_CHANNEL_CAP
    /\ step_chan' = step_chan + 1
    /\ ticks_sent' = ticks_sent + 1
    /\ timer_pc' = "run"
    /\ UNCHANGED << starts, offsets, gen_done, timer_next, timer_result,
                    at_abort >>
    /\ timer_unchanged

\* rate = 0: the duration has elapsed; step_tx is dropped.
TimerUnboundedFinish ==
    /\ timer_pc = "run"
    /\ args.rate = 0
    /\ clock \div MILLIS_PER_SEC >= args.duration
    /\ timer_pc' = "done"
    /\ timer_result' = "Ok"
    /\ UNCHANGED << starts, offsets, gen_done, timer_next, ticks_sent,
                    step_chan, at_abort >>
    /\ timer_unchanged

\* rate > 0: the schedule is exhausted; step_tx is dropped.
TimerFinish ==
    /\ timer_pc = "run"
    /\ args.rate > 0
    /\ RampGenNext(starts).item = << >>
    /\ gen_done' = TRUE
    /\ timer_pc' = "done"
    /\ timer_result' = "Ok"
    /\ UNCHANGED << starts, offsets, timer_next, ticks_sent, step_chan,
                    at_abort >>
    /\ timer_unchanged

\* rate > 0: the next offset is already more than the slack in the past.
TimerAbort ==
    /\ timer_pc = "run"
    /\ args.rate > 0
    /\ RampGenNext(starts).item # << >>
    /\ LET start == RampGenNext(starts).item[1] IN
        /\ BehindSchedule(clock, start)
        /\ offsets' = Append(offsets, start)
    /\ starts' = RampGenNext(starts).gen
    /\ timer_pc' = "done"
    /\ timer_result' = "Err"
    /\ at_abort' = InFlight
    /\ UNCHANGED << gen_done, timer_next, ticks_sent, step_chan >>
    /\ timer_unchanged

\* rate > 0: the next offset is in time; the thread goes to sleep for it.
TimerSchedule ==
    /\ timer_pc = "run"
    /\ args.rate > 0
    /\ RampGenNext(starts).item # << >>
    /\ LET start == RampGenNext(starts).item[1] IN
        /\ ~BehindSchedule(clock, start)
        /\ offsets' = Append(offsets, start)
        /\ timer_next' = start
    /\ starts' = RampGenNext(starts).gen
    /\ timer_pc' = "sleep"
    /\ UNCHANGED << gen_done, timer_result, ticks_sent, step_chan, at_abort >>
    /\ timer_unchanged

\* A variant with a step channel that holds a single tick.
TimerSend_SingleSlot ==
    /\ timer_pc = "sleep"
    /\ DurLe(timer_next, DurFromMillis(clock))
    /\ step_chan < 1
    /\ step_chan' = step_chan + 1
    /\ ticks_sent' = ticks_sent + 1
    /\ timer_pc' = "run"
    /\ UNCHANGED << starts, offsets, gen_done, timer_next, timer_result,
                    at_abort >>
    /\ timer_unchanged

\* A variant that does not sleep until the offset before it sends.
TimerSend_NoSleep ==
    /\ timer_pc = "sleep"
    /\ step_chan < STEP_CHANNEL_CAP
    /\ step_chan' = step_chan + 1
    /\ ticks_sent' = ticks_sent + 1
    /\ timer_pc' = "run"
    /\ UNCHANGED << starts, offsets, gen_done, timer_next, timer_result,
                    at_abort >>
    /\ timer_unchanged

\* rate > 0: the sleep is over and the tick goes on the step channel.
TimerSend ==
    /\ timer_pc = "sleep"
    /\ DurLe(timer_next, DurFromMillis(clock))
    /\ step_chan < STEP_CHANNEL_CAP
    /\ step_chan' = step_chan + 1
    /\ ticks_sent' = ticks_sent + 1
    /\ timer_pc' = "run"
    /\ UNCHANGED << starts, offsets, gen_done, timer_next, timer_result,
                    at_abort >>
    /\ timer_unchanged

(***************************************************************************)
(* The spawner loop (main.rs:238-287).                                     *)
(***************************************************************************)
\* user_rx.recv(): the pool after a token has been taken from it
PoolAfterRecv_Keep(pool) == pool

PoolAfterRecv(pool) == Tail(pool)

\* The task as tokio::spawn starts it: the request is about to be sent.
NewTask(user_id, is_hot) ==
    [pc |-> "send", user_id |-> user_id, is_hot |-> is_hot, outcome |-> "pending"]

\* step_rx.recv() yields a tick; the request is built (main.rs:239-243).
SpawnerRecvStep ==
    /\ spawner_pc = "recv"
    /\ step_chan > 0
    /\ step_chan' = step_chan - 1
    /\ hot_gen' = HotGeneratorNext(hot_gen).gen
    /\ pending_hot' = HotGeneratorNext(hot_gen).hot
    /\ hot_answers' = Append(hot_answers, HotGeneratorNext(hot_gen).hot)
    /\ spawner_pc' = "acquire"
    /\ UNCHANGED << hot_seed, args, clock, starts, offsets, gen_done, timer_pc,
                    timer_next, timer_result, ticks_sent, user_chan,
                    record_chan, tasks, main_pc, num_warmup, num_received,
                    bench_log, printed, main_result, at_abort >>

\* user_rx.recv() yields a token; the request task is spawned with it
\* (main.rs:245-248).
SpawnerAcquire ==
    /\ spawner_pc = "acquire"
    /\ user_chan # << >>
    /\ tasks' = Append(tasks, NewTask(Head(user_chan), pending_hot))
    /\ user_chan' = PoolAfterRecv(user_chan)
    /\ spawner_pc' = "recv"
    /\ UNCHANGED << args, clock, starts, offsets, gen_done, timer_pc,
                    timer_next, timer_result, ticks_sent, step_chan,
                    record_chan, hot_gen,
                    hot_seed, hot_answers, pending_hot, main_pc, num_warmup,
                    num_received, bench_log, printed, main_result, at_abort >>

\* step_rx.recv() yields None: the step channel is empty and step_tx is
\* dropped. The loop ends and drops user_rx, user_tx and record_tx.
SpawnerEnd ==
    /\ spawner_pc = "recv"
    /\ step_chan = 0
    /\ timer_pc = "done"
    /\ spawner_pc' = "ended"
    /\ UNCHANGED << args, clock, starts, offsets, gen_done, timer_pc,
                    timer_next, timer_result, ticks_sent, step_chan,
                    user_chan, record_chan, hot_gen,
                    hot_seed, hot_answers, pending_hot, tasks,
                    main_pc, num_warmup, num_received, bench_log, printed,
                    main_result, at_abort >>

(***************************************************************************)
(* A request task (main.rs:248-285).                                       *)
(***************************************************************************)
task_unchanged ==
    UNCHANGED << args, clock, starts, offsets, gen_done, timer_pc,
                 timer_next, timer_result, ticks_sent, step_chan, spawner_pc,
                 hot_gen,
                 hot_seed, hot_answers, pending_hot, main_pc, num_warmup, num_received,
                 bench_log, printed, main_result, at_abort >>

\* The request ends and the Record is built (main.rs:250-281).
TaskComplete(i, outcome) ==
    /\ tasks[i].pc = "send"
    /\ ~Panics(outcome)
    /\ tasks' = [tasks EXCEPT ![i].pc = "return", ![i].outcome = outcome]
    /\ UNCHANGED << user_chan, record_chan >>
    /\ task_unchanged

\* The response has a non-error status but its body cannot be read, is not 8
\* bytes long or is not the expected checksum: the task panics
\* (main.rs:264-269) and is dropped with its token and its senders.
TaskPanic(i, outcome) ==
    /\ tasks[i].pc = "send"
    /\ Panics(outcome)
    /\ tasks' = [tasks EXCEPT ![i].pc = "panicked", ![i].outcome = outcome]
    /\ UNCHANGED << user_chan, record_chan >>
    /\ task_unchanged

\* A variant that unwraps the result of user_tx.send: the task panics when
\* the spawner loop has dropped user_rx.
TaskReturnToken_Unwrap(i) ==
    /\ tasks[i].pc = "return"
    /\ \/ /\ spawner_pc # "ended"
          /\ Len(user_chan) < args.num_users
          /\ user_chan' = Append(user_chan, tasks[i].user_id)
          /\ tasks' = [tasks EXCEPT ![i].pc = "report"]
       \/ /\ spawner_pc = "ended"
          /\ user_chan' = user_chan
          /\ tasks' = [tasks EXCEPT ![i].pc = "panicked"]
    /\ UNCHANGED record_chan
    /\ task_unchanged

\* user_tx.send(user_id), its result ignored (main.rs:282-283). The send
\* fails once the spawner loop has dropped user_rx.
TaskReturnToken(i) ==
    /\ tasks[i].pc = "return"
    /\ \/ /\ spawner_pc # "ended"
          /\ Len(user_chan) < args.num_users
          /\ user_chan' = Append(user_chan, tasks[i].user_id)
       \/ /\ spawner_pc = "ended"
          /\ user_chan' = user_chan
    /\ tasks' = [tasks EXCEPT ![i].pc = "report"]
    /\ UNCHANGED record_chan
    /\ task_unchanged

\* record_tx.send(record) (main.rs:284); the task ends.
TaskSendRecord(i) ==
    /\ tasks[i].pc = "report"
    /\ Len(record_chan) < RECORD_CHANNEL_CAP
    /\ record_chan' =
           Append(record_chan, RecordOf(i, tasks[i].is_hot, tasks[i].outcome))
    /\ tasks' = [tasks EXCEPT ![i].pc = "done"]
    /\ UNCHANGED user_chan
    /\ task_unchanged

(***************************************************************************)
(* tokio_main, top level (main.rs:234-236, 289-334).                       *)
(***************************************************************************)
main_unchanged ==
    UNCHANGED << args, clock, starts, offsets, gen_done, timer_pc,
                 timer_next, timer_result, ticks_sent, step_chan, hot_gen,
                 hot_seed, hot_answers,
                 pending_hot, tasks, num_warmup, at_abort >>

\* One turn of the loop that fills the pool (main.rs:234-236).
MainFillPool ==
    /\ main_pc = "fill"
    /\ Len(user_chan) < args.num_users
    /\ user_chan' = Append(user_chan, Len(user_chan))
    /\ UNCHANGED << record_chan, spawner_pc, main_pc, num_received,
                    bench_log, printed, main_result >>
    /\ main_unchanged

\* The pool is full; the spawner loop is spawned (main.rs:238).
MainSpawn ==
    /\ main_pc = "fill"
    /\ Len(user_chan) = args.num_users
    /\ spawner_pc' = "recv"
    /\ main_pc' = "recv"
    /\ UNCHANGED << user_chan, record_chan, num_received, bench_log,
                    printed, main_result >>
    /\ main_unchanged

\* num_received > num_warmup, main.rs:292
KeepsRecord_FromWarmup(received, warmup) == received >= warmup

KeepsRecord(received, warmup) == received > warmup

\* record_rx.recv() yields a Record (main.rs:290-294).
AggRecv ==
    /\ main_pc = "recv"
    /\ record_chan # << >>
    /\ record_chan' = Tail(record_chan)
    /\ num_received' = num_received + 1
    /\ bench_log' = IF KeepsRecord(num_received + 1, num_warmup)
                    THEN add_record(bench_log, Head(record_chan))
                    ELSE bench_log
    /\ UNCHANGED << user_chan, spawner_pc, main_pc, printed, main_result >>
    /\ main_unchanged

\* Every record_tx is dropped: the spawner loop has ended and every task has
\* ended or panicked.
SendersGone ==
    /\ spawner_pc = "ended"
    /\ \A i \in 1 .. Len(tasks) : tasks[i].pc \in { "done", "panicked" }

\* record_rx.recv() yields None (main.rs:290).
AggClosed ==
    /\ main_pc = "recv"
    /\ record_chan = << >>
    /\ SendersGone
    /\ main_pc' = "write"
    /\ UNCHANGED << user_chan, record_chan, spawner_pc, num_received,
                    bench_log, printed, main_result >>
    /\ main_unchanged

\* No output file, or the file is written (main.rs:297-315).
MainWriteOutput ==
    /\ main_pc = "write"
    /\ main_pc' = "stats"
    /\ UNCHANGED << user_chan, record_chan, spawner_pc, num_received,
                    bench_log, printed, main_result >>
    /\ main_unchanged

\* args.output_file names a file that cannot be created or written: `?`
\* returns the error (main.rs:298-313).
MainWriteFail ==
    /\ main_pc = "write"
    /\ main_pc' = "returned"
    /\ main_result' = "Err"
    /\ UNCHANGED << user_chan, record_chan, spawner_pc, num_received,
                    bench_log, printed >>
    /\ main_unchanged

\* A variant that prints the totals and the table only when the timer ended
\* well.
MainPrintStats_OnSuccess ==
    /\ main_pc = "stats"
    /\ timer_pc = "done"
    /\ printed' = IF timer_result = "Ok"
                  THEN printed \o << "total", "percentiles" >>
                  ELSE printed
    /\ main_pc' = "await"
    /\ UNCHANGED << user_chan, record_chan, spawner_pc, num_received,
                    bench_log, main_result >>
    /\ main_unchanged

\* The totals and the percentile table are printed (main.rs:317-325).
MainPrintStats ==
    /\ main_pc = "stats"
    /\ printed' = printed \o << "total", "percentiles" >>
    /\ main_pc' = "await"
    /\ UNCHANGED << user_chan, record_chan, spawner_pc, num_received,
                    bench_log, main_result >>
    /\ main_unchanged

\* task_timer.await??: what tokio_main makes of the timer's result
AwaitResult_Ignore(result) == "Ok"

AwaitResult(result) == result

\* task_timer.await?? returns the timer's error (main.rs:327).
MainAwaitErr ==
    /\ main_pc = "await"
    /\ timer_pc = "done"
    /\ AwaitResult(timer_result) = "Err"
    /\ main_pc' = "returned"
    /\ main_result' = "Err"
    /\ UNCHANGED << user_chan, record_chan, spawner_pc, num_received,
                    bench_log, printed >>
    /\ main_unchanged

\* The timer ended well: the last line is printed and Ok(()) returned
\* (main.rs:327-334).
MainAwaitOk ==
    /\ main_pc = "await"
    /\ timer_pc = "done"
    /\ AwaitResult(timer_result) = "Ok"
    /\ printed' = Append(printed, "goodput")
    /\ main_pc' = "returned"
    /\ main_result' = "Ok"
    /\ UNCHANGED << user_chan, record_chan, spawner_pc, num_received,
                    bench_log >>
    /\ main_unchanged

(***************************************************************************)
(* The run. With rate = 0 the number of ticks has no bound but the time    *)
(* the requests take; here the run is followed for its first MaxTicks      *)
(* ticks, under every interleaving and every outcome of the requests. The  *)
(* whole of a rate = 0 run against a slow target is SpecUnb below.         *)
(***************************************************************************)
Next ==
    \/ ClockAdvance
    \/ ticks_sent < MaxTicks /\ TimerUnboundedTest
    \/ TimerUnboundedSend
    \/ TimerUnboundedFinish
    \/ TimerFinish
    \/ TimerAbort
    \/ TimerSchedule
    \/ TimerSend
    \/ SpawnerRecvStep
    \/ SpawnerAcquire
    \/ SpawnerEnd
    \/ \E i \in 1 .. Len(tasks) : \E outcome \in Outcomes : TaskComplete(i, outcome)
    \/ \E i \in 1 .. Len(tasks) : \E outcome \in Outcomes : TaskPanic(i, outcome)
    \/ \E i \in 1 .. Len(tasks) : TaskReturnToken(i)
    \/ \E i \in 1 .. Len(tasks) : TaskSendRecord(i)
    \/ MainFillPool
    \/ MainSpawn
    \/ AggRecv
    \/ AggClosed
    \/ MainWriteOutput
    \/ MainWriteFail
    \/ MainPrintStats
    \/ MainAwaitErr
    \/ MainAwaitOk

Spec == Init /\ [][Next]_vars

(***************************************************************************)
(* HotGenerator alone: HotGenerator::new with any hot_percent in [0, 1]    *)
(* and any random counter, then HotGenerator::next call after call.        *)
(***************************************************************************)
HotArgsSet ==
    [ duration    : {1},
      rate        : {1},
      num_users   : {1},
      no_warmup   : {TRUE},
      hot_percent : 0 .. HotDen ]

InitHot == \E a \in HotArgsSet : \E random \in RandomF64 : InitRun(a, random)

\* hot_gen.next() (main.rs:240)
HotNext ==
    /\ Len(hot_answers) < MaxCalls
    /\ hot_gen' = HotGeneratorNext(hot_gen).gen
    /\ pending_hot' = HotGeneratorNext(hot_gen).hot
    /\ hot_answers' = Append(hot_answers, HotGeneratorNext(hot_gen).hot)
    /\ UNCHANGED << hot_seed, args, clock, starts, offsets, gen_done,
                    timer_pc, timer_next, timer_result, ticks_sent,
                    step_chan, user_chan, record_chan, spawner_pc, tasks,
                    main_pc, num_warmup, num_received, bench_log, printed,
                    main_result, at_abort >>

NextHot == HotNext

SpecHot == InitHot /\ [][NextHot]_vars

(***************************************************************************)
(* A saturated target in closed-loop mode. The rate is RATE_INC_PER_SEC,   *)
(* one offset per millisecond, and the target answers no request in less   *)
(* than SatServiceMs. Nothing else delays the run: the clock moves, a      *)
(* millisecond at a time, only when the timer, the spawner loop, the       *)
(* request tasks and tokio_main are all waiting. The run is followed until *)
(* the clock reaches SatServiceMs; the requests sent after the first       *)
(* num_users ones are answered later than that.                            *)
(***************************************************************************)
SatServiceMs == 3 * REQ_ISSUE_SLACK_MS

SatArgsSet ==
    [ duration    : {1},
      rate        : { RATE_INC_PER_SEC },
      num_users   : 1 .. MaxUsers,
      no_warmup   : {FALSE},
      hot_percent : {HotDen} ]

InitSat == \E a \in SatArgsSet : InitRun(a, F64(0, 0))

\* What the program can do without the clock moving or the target answering.
SatProgramStep ==
    \/ TimerAbort
    \/ TimerSchedule
    \/ TimerSend
    \/ SpawnerRecvStep
    \/ SpawnerAcquire
    \/ \E i \in 1 .. Len(tasks) : TaskReturnToken(i)
    \/ \E i \in 1 .. Len(tasks) : TaskSendRecord(i)
    \/ MainFillPool
    \/ MainSpawn
    \/ AggRecv

\* A millisecond passes while everything is waiting.
SatClockAdvance ==
    /\ timer_pc # "done"
    /\ clock < SatServiceMs
    /\ ~ENABLED SatProgramStep
    /\ clock' = clock + 1
    /\ UNCHANGED << args, starts, offsets, gen_done, timer_pc, timer_next,
                    timer_result, ticks_sent, step_chan, user_chan,
                    record_chan, spawner_pc, hot_gen, hot_seed, hot_answers,
                    pending_hot, tasks, main_pc, num_warmup, num_received,
                    bench_log, printed, main_result, at_abort >>

\* The target answers one of the first num_users requests, well.
SatTaskComplete(i) ==
    /\ i <= args.num_users
    /\ clock >= SatServiceMs
    /\ TaskComplete(i, "OkMatch")

NextSat ==
    \/ SatClockAdvance
    \/ TimerAbort
    \/ TimerSchedule
    \/ TimerSend
    \/ SpawnerRecvStep
    \/ SpawnerAcquire
    \/ \E i \in 1 .. Len(tasks) : SatTaskComplete(i)
    \/ \E i \in 1 .. Len(tasks) : TaskReturnToken(i)
    \/ \E i \in 1 .. Len(tasks) : TaskSendRecord(i)
    \/ MainFillPool
    \/ MainSpawn
    \/ AggRecv

SpecSat == InitSat /\ [][NextSat]_vars

(***************************************************************************)
(* An unbounded run (rate = 0) against a slow target: no request is        *)
(* answered before UnbServiceMs, which is later than the duration. Nothing *)
(* else delays the run: the clock moves only when the timer, the spawner   *)
(* loop, the request tasks and tokio_main are all waiting. The step        *)
(* channel fills with STEP_CHANNEL_CAP ticks while the first num_users     *)
(* requests are in flight, and the timer blocks in blocking_send until the *)
(* target answers. The run is followed until the clock reaches             *)
(* UnbServiceMs; the requests sent after the first num_users ones are      *)
(* answered later than that.                                               *)
(***************************************************************************)
UnbServiceMs == MILLIS_PER_SEC + ClockStepMs

UnbArgsSet ==
    [ duration    : {1},
      rate        : {0},
      num_users   : 1 .. MaxUsers,
      no_warmup   : {FALSE},
      hot_percent : {HotDen} ]

InitUnb == \E a \in UnbArgsSet : InitRun(a, F64(0, 0))

\* What the program can do without the clock moving or the target answering.
UnbProgramStep ==
    \/ TimerUnboundedTest
    \/ TimerUnboundedSend
    \/ TimerUnboundedFinish
    \/ SpawnerRecvStep
    \/ SpawnerAcquire
    \/ \E i \in 1 .. Len(tasks) : TaskReturnToken(i)
    \/ \E i \in 1 .. Len(tasks) : TaskSendRecord(i)
    \/ MainFillPool
    \/ MainSpawn
    \/ AggRecv

\* Time passes while everything is waiting, until the target answers.
UnbClockAdvance ==
    /\ clock < UnbServiceMs
    /\ ~ENABLED UnbProgramStep
    /\ clock' = clock + ClockStepMs
    /\ UNCHANGED << args, starts, offsets, gen_done, timer_pc, timer_next,
                    timer_result, ticks_sent, step_chan, user_chan,
                    record_chan, spawner_pc, hot_gen, hot_seed, hot_answers,
                    pending_hot, tasks, main_pc, num_warmup, num_received,
                    bench_log, printed, main_result, at_abort >>

\* The target answers one of the first num_users requests, well.
UnbTaskComplete(i) ==
    /\ i <= args.num_users
    /\ clock >= UnbServiceMs
    /\ TaskComplete(i, "OkMatch")

NextUnb ==
    \/ UnbClockAdvance
    \/ TimerUnboundedTest
    \/ TimerUnboundedSend
    \/ TimerUnboundedFinish
    \/ SpawnerRecvStep
    \/ SpawnerAcquire
    \/ \E i \in 1 .. Len(tasks) : UnbTaskComplete(i)
    \/ \E i \in 1 .. Len(tasks) : TaskReturnToken(i)
    \/ \E i \in 1 .. Len(tasks) : TaskSendRecord(i)
    \/ MainFillPool
    \/ MainSpawn
    \/ AggRecv

SpecUnb == InitUnb /\ [][NextUnb]_vars

(***************************************************************************)
(* The generator alone: ConstGen::new, then ConstGen::next until None.     *)
(***************************************************************************)
GenArgsSet ==
    [ duration    : 1 .. MaxGenDuration,
      rate        : 1 .. MaxGenRate,
      num_users   : {1},
      no_warmup   : {TRUE},
      hot_percent : {HotDen} ]

InitGen ==
    \E a \in GenArgsSet :
        InitState(a, F64(0, 0), ConstGenNew(DurFromSecs(a.duration), a.rate))

gen_unchanged ==
    UNCHANGED << args, clock, timer_pc, timer_next, timer_result, ticks_sent,
                 step_chan, user_chan, record_chan, spawner_pc, hot_gen,
                 hot_seed, hot_answers,
                 pending_hot, tasks, main_pc, num_warmup, num_received,
                 bench_log, printed, main_result, at_abort >>

\* ConstGen::next returns Some(offset).
GenNext ==
    /\ ~gen_done
    /\ ConstGenNext(starts).item # << >>
    /\ offsets' = Append(offsets, ConstGenNext(starts).item[1])
    /\ starts' = ConstGenNext(starts).gen
    /\ UNCHANGED gen_done
    /\ gen_unchanged

\* ConstGen::next returns None.
GenEnd ==
    /\ ~gen_done
    /\ ConstGenNext(starts).item = << >>
    /\ gen_done' = TRUE
    /\ UNCHANGED << starts, offsets >>
    /\ gen_unchanged

NextGen == GenNext \/ GenEnd

SpecGen == InitGen /\ [][NextGen]_vars

(***************************************************************************)
(* The aggregator alone: the loop of main.rs:289-295 draining a record     *)
(* channel that request tasks fill one Record at a time, for rates on both *)
(* sides of the first warm-up step.                                        *)
(***************************************************************************)
AggRates == { 1, RATE_INC_PER_SEC, RATE_INC_PER_SEC + 1 }

AggArgsSet ==
    [ duration    : {1},
      rate        : AggRates,
      num_users   : {1},
      no_warmup   : BOOLEAN,
      hot_percent : {HotDen} ]

InitAgg ==
    \E a \in AggArgsSet :
        /\ args = a
        /\ clock = 0
        /\ starts = StartsOf(a)
        /\ offsets = << >>
        /\ gen_done = FALSE
        /\ timer_pc = "done"
        /\ timer_next = DurZero
        /\ timer_result = "Ok"
        /\ ticks_sent = 0
        /\ step_chan = 0
        /\ user_chan = << >>
        /\ record_chan = << >>
        /\ spawner_pc = "recv"
        /\ hot_gen = HotGeneratorNew(a.hot_percent, F64(0, 0))
        /\ hot_seed = F64(0, 0)
        /\ hot_answers = << >>
        /\ pending_hot = FALSE
        /\ tasks = << >>
        /\ main_pc = "recv"
        /\ num_warmup = NumWarmup(a.no_warmup, a.rate)
        /\ num_received = 0
        /\ bench_log = BenchLogNew
        /\ printed = << >>
        /\ main_result = "none"
        /\ at_abort = {}

agg_unchanged ==
    UNCHANGED << args, clock, starts, offsets, gen_done, timer_pc,
                 timer_next, timer_result, ticks_sent, step_chan, user_chan,
                 hot_gen,
                 hot_seed, hot_answers, pending_hot, tasks, main_pc, num_warmup,
                 num_received, bench_log, printed, main_result, at_abort >>

\* A request task puts its Record on the record channel (main.rs:284). The
\* Record's id is its place in the order of arrival.
AggFeed(outcome) ==
    /\ spawner_pc # "ended"
    /\ ~Panics(outcome)
    /\ record_chan = << >>
    /\ num_received < num_warmup + MaxExtra
    /\ record_chan' = << RecordOf(num_received + 1, TRUE, outcome) >>
    /\ UNCHANGED spawner_pc
    /\ agg_unchanged

\* The last record_tx is dropped (main.rs:285-287).
AggFeedEnd ==
    /\ spawner_pc # "ended"
    /\ spawner_pc' = "ended"
    /\ UNCHANGED record_chan
    /\ agg_unchanged

NextAgg ==
    \/ \E outcome \in Outcomes : AggFeed(outcome)
    \/ AggFeedEnd
    \/ AggRecv
    \/ AggClosed

SpecAgg == InitAgg /\ [][NextAgg]_vars

(***************************************************************************)
(* The percentile table alone: Records of any durations are added to the   *)
(* log, the record channel closes and BenchLog::latencies is taken for the *)
(* percentages of main.rs:320. printed holds the table's values.           *)
(***************************************************************************)
InitLat == InitAgg /\ args.no_warmup /\ args.rate = 1

lat_unchanged ==
    UNCHANGED << args, clock, starts, offsets, gen_done, timer_pc,
                 timer_next, timer_result, ticks_sent, step_chan, user_chan,
                 record_chan, spawner_pc, hot_gen, hot_seed, hot_answers,
                 pending_hot, tasks, num_warmup, main_result, at_abort >>

\* A request that took `duration` ends well and the aggregator adds its
\* Record to the log (main.rs:253-260, 290-294).
LatAddRecord(duration) ==
    /\ main_pc = "recv"
    /\ total(bench_log) < MaxSamples
    /\ num_received' = num_received + 1
    /\ bench_log' =
           add_record(bench_log,
                      [ id |-> num_received + 1, is_hot |-> TRUE,
                        timeout |-> FALSE, error |-> FALSE,
                        status |-> "200", duration |-> duration ])
    /\ UNCHANGED << main_pc, printed >>
    /\ lat_unchanged

\* record_rx.recv() returns None; no output file is written (main.rs:290,
\* 297).
LatClosed ==
    /\ main_pc = "recv"
    /\ main_pc' = "stats"
    /\ UNCHANGED << num_received, bench_log, printed >>
    /\ lat_unchanged

\* The table is computed and printed (main.rs:320-325).
LatPercentiles ==
    /\ main_pc = "stats"
    /\ main_pc' = "await"
    /\ printed' = latencies(bench_log, Percentages)
    /\ UNCHANGED << num_received, bench_log >>
    /\ lat_unchanged

NextLat ==
    \/ \E duration \in 1 .. MaxLatency : LatAddRecord(duration)
    \/ LatClosed
    \/ LatPercentiles

SpecLat == InitLat /\ [][NextLat]_vars

(***************************************************************************)
(* Notions the properties are stated with.                                 *)
(***************************************************************************)
TaskIds == 1 .. Len(tasks)

\* The requests that hold a token: sent, token not yet given back.
Outstanding == { i \in TaskIds : tasks[i].pc \in { "send", "return" } }

\* The tasks that have ended, normally or by a panic.
Ended == { i \in TaskIds : tasks[i].pc \in { "done", "panicked" } }

\* The number of Records of task i in a sequence of Records.
CountOf(i, records) ==
    Cardinality({ k \in 1 .. Len(records) : records[k].id = i })

\* The Records task i has put on the record channel, whether still buffered
\* or already with the aggregator (which keeps them all when num_warmup = 0).
Delivered(i) == CountOf(i, record_chan) + CountOf(i, bench_log.records)

\* The number of offsets the schedule g still yields.
RECURSIVE Remaining(_)
Remaining(g) ==
    IF RampGenNext(g).item = << >> THEN 0
    ELSE 1 + Remaining(RampGenNext(g).gen)

\* The length of the whole schedule: what was yielded and what is left.
ScheduleLen == Len(offsets) + Remaining(starts)

AfterRecvLoop == main_pc \in { "write", "stats", "await", "returned" }

(***************************************************************************)
(* C1. With a pool of num_users tokens, the number of requests that have   *)
(* been sent and have not given their token back is at most num_users in   *)
(* every reachable state.                                                  *)
(***************************************************************************)
C1_OutstandingAtMostUsers == Cardinality(Outstanding) <= args.num_users

\* Every token is with a request while the spawner loop, holding the next
\* tick, waits for one.
C1_Witness ==
    /\ Cardinality(Outstanding) = args.num_users
    /\ user_chan = << >>
    /\ spawner_pc = "acquire"

(***************************************************************************)
(* C2. Every request task that has ended has put exactly one Record on     *)
(* the record channel, and when the aggregator's loop is over the number   *)
(* of Records it received equals the number of requests issued.            *)
(***************************************************************************)
C2_OneRecordPerRequest ==
    /\ \A i \in Ended : Delivered(i) = 1
    /\ AfterRecvLoop => num_received = Len(tasks)

(***************************************************************************)
(* C3. While the spawner loop is alive, the tokens in the pool and the     *)
(* tokens held by unfinished requests are num_users together, and no user  *)
(* id is in two places.                                                    *)
(***************************************************************************)
C3_TokensConserved ==
    spawner_pc \in { "recv", "acquire" } =>
        /\ Len(user_chan) + Cardinality(Outstanding) = args.num_users
        /\ \A u \in 0 .. args.num_users - 1 :
               Cardinality({ k \in 1 .. Len(user_chan) : user_chan[k] = u })
             + Cardinality({ i \in Outstanding : tasks[i].user_id = u }) = 1

(***************************************************************************)
(* C4. No reachable state is a deadlock: until tokio_main has returned,    *)
(* some process can take a step.                                           *)
(***************************************************************************)
C4_NoDeadlock == main_pc = "returned" \/ ENABLED Next

(***************************************************************************)
(* C5. Once the timer has found an offset more than the slack in the past  *)
(* it has sent no tick for that offset and sends none afterwards, the      *)
(* outcomes received stay fewer than the schedule is long, and tokio_main  *)
(* does not return Ok.                                                     *)
(***************************************************************************)
C5_OverloadStopsRun ==
    /\ [](timer_result = "Err" =>
            /\ ticks_sent = Len(offsets) - 1
            /\ num_received < ScheduleLen
            /\ main_result # "Ok"
            /\ main_pc = "returned" => main_result = "Err")
    /\ [][timer_result = "Err" =>
            /\ timer_result' = "Err"
            /\ ticks_sent' = ticks_sent
            /\ offsets' = offsets]_vars

\* The timer gave up after at least one request, whose outcome was received,
\* and tokio_main has returned the error.
C5_Witness ==
    /\ timer_result = "Err"
    /\ main_pc = "returned"
    /\ main_result = "Err"
    /\ num_received >= 1
    /\ printed # << >>

(***************************************************************************)
(* C6. If tokio_main returns having received fewer outcomes than the       *)
(* schedule's expected length, it returns an error.                        *)
(***************************************************************************)
C6_FewerOutcomesFails ==
    (main_pc = "returned" /\ num_received < expected_len(starts))
        => main_result = "Err"

(***************************************************************************)
(* C7. After the timer has signalled overload the top level takes no       *)
(* outcome of a request that was in flight at that moment: it does not     *)
(* wait for them.                                                          *)
(***************************************************************************)
C7_InFlightAbandoned ==
    [][(/\ timer_result = "Err"
        /\ record_chan # << >>
        /\ Head(record_chan).id \in at_abort)
          => num_received' = num_received]_vars

(***************************************************************************)
(* C8. BenchLog.records holds exactly max(0, num_received - num_warmup)    *)
(* Records, and they are the outcomes that arrived after the first         *)
(* num_warmup, in order of arrival.                                        *)
(***************************************************************************)
C8_WarmupDiscarded ==
    /\ total(bench_log) =
           IF num_received > num_warmup THEN num_received - num_warmup ELSE 0
    /\ \A k \in 1 .. total(bench_log) :
           bench_log.records[k].id = num_warmup + k

\* A run with a warm-up of RATE_INC_PER_SEC outcomes has ended with two more.
C8_Witness ==
    /\ main_pc = "write"
    /\ num_warmup = RATE_INC_PER_SEC
    /\ num_received = num_warmup + 2
    /\ total(bench_log) = 2

(***************************************************************************)
(* C9. The offsets ConstGen::next yields are strictly increasing and each  *)
(* is strictly less than the duration.                                     *)
(***************************************************************************)
C9_OffsetsIncreasingBelowDuration ==
    \A k \in 1 .. Len(offsets) :
        /\ DurLt(offsets[k], starts.duration)
        /\ k > 1 => DurLt(offsets[k - 1], offsets[k])

(***************************************************************************)
(* C10. When ConstGen::next returns None it has yielded expected_len()     *)
(* = duration * rate offsets.                                              *)
(***************************************************************************)
C10_LenIsExpected ==
    gen_done =>
        /\ expected_len(starts) = args.duration * args.rate
        /\ Len(offsets) = expected_len(starts)

(***************************************************************************)
(* C10, amended. For a rate that divides 10^9, so that 1/rate is a whole   *)
(* number of nanoseconds, ConstGen::next has yielded expected_len()        *)
(* = duration * rate offsets when it returns None.                         *)
(***************************************************************************)
C10_LenIsExpectedForExactIat ==
    (gen_done /\ NANOS_PER_SEC % args.rate = 0) =>
        /\ expected_len(starts) = args.duration * args.rate
        /\ Len(offsets) = expected_len(starts)

\* duration = 1 s and rate = 10: exactly 10 offsets.
C10_Witness ==
    /\ gen_done
    /\ args.duration = 1
    /\ args.rate = 10
    /\ Len(offsets) = 10

\* All the offsets the schedule g yields, in order.
RECURSIVE ScheduleOf(_)
ScheduleOf(g) ==
    IF RampGenNext(g).item = << >> THEN << >>
    ELSE RampGenNext(g).item \o ScheduleOf(RampGenNext(g).gen)

\* The tasks that panicked.
Panicked == { i \in TaskIds : tasks[i].pc = "panicked" }

\* The number of Records with a flag set in a sequence of Records.
Flagged(records) ==
    Cardinality({ k \in 1 .. Len(records) :
                    records[k].timeout \/ records[k].error })

(***************************************************************************)
(* C13. A request that times out, fails in transport or gets an error      *)
(* status, whether the failure comes with the response or while the body   *)
(* of a response with a non-error status is read, goes on to give its      *)
(* token back and to deliver its Record; every stored Record is the one of *)
(* its own request; tokio_main returns an error only when the timer did or *)
(* the output could not be written; a timer that ended well has sent a     *)
(* tick for every offset, and every tick has become a request when the     *)
(* spawner loop ends.                                                      *)
(***************************************************************************)
C13_FailuresNeverAbort ==
    /\ \A i \in TaskIds :
           tasks[i].outcome \in RequestFailures =>
               /\ tasks[i].pc \in { "return", "report", "done" }
               /\ tasks[i].pc = "done" => Delivered(i) = 1
    /\ \A k \in 1 .. Len(bench_log.records) :
           LET r == bench_log.records[k] IN
               r = RecordOf(r.id, tasks[r.id].is_hot, tasks[r.id].outcome)
    /\ main_result = "Err" => (timer_result = "Err" \/ printed = << >>)
    /\ (timer_result = "Ok" /\ args.rate > 0) =>
           ticks_sent = Len(ScheduleOf(StartsOf(args)))
    /\ spawner_pc = "ended" => Len(tasks) = ticks_sent

(***************************************************************************)
(* C14. A request whose response has a non-error status and an 8-byte      *)
(* payload that is not the expected checksum has, once its task has ended, *)
(* exactly one Record in the results, and that Record is counted neither   *)
(* as a timeout nor as an error.                                           *)
(***************************************************************************)
C14_MismatchFlagged ==
    \A i \in Ended :
        tasks[i].outcome = "OkBadSum" =>
            /\ Delivered(i) = 1
            /\ \A k \in 1 .. Len(bench_log.records) :
                   bench_log.records[k].id = i =>
                       /\ ~bench_log.records[k].timeout
                       /\ ~bench_log.records[k].error

C16_StatsAlwaysGoodputOnSuccess ==
    /\ main_pc = "await" => printed = << "total", "percentiles" >>
    /\ (main_pc = "returned" /\ printed # << >>) =>
           SubSeq(printed, 1, 2) = << "total", "percentiles" >>
    /\ timer_result = "Err" =>
           \A k \in 1 .. Len(printed) : printed[k] # "goodput"
    /\ main_result = "Ok" =>
           printed = << "total", "percentiles", "goodput" >>

\* The timer failed and tokio_main has returned after printing the totals and
\* the table, and nothing else.
C16_Witness ==
    /\ main_pc = "returned"
    /\ timer_result = "Err"
    /\ printed = << "total", "percentiles" >>

(***************************************************************************)
(* C18. With rate > 0 the offsets taken are a prefix of the schedule, the  *)
(* k-th tick is sent for the k-th offset, after that offset has been       *)
(* taken and not before the clock has reached it, and the ticks sent are   *)
(* never more than the schedule is long.                                   *)
(***************************************************************************)
C18_TicksFollowSchedule ==
    /\ [](args.rate > 0 =>
            /\ Len(offsets) <= Len(ScheduleOf(StartsOf(args)))
            /\ offsets = SubSeq(ScheduleOf(StartsOf(args)), 1, Len(offsets))
            /\ ticks_sent <= Len(offsets)
            /\ Len(offsets) <= ticks_sent + 1)
    /\ [][(args.rate > 0 /\ ticks_sent' # ticks_sent) =>
            /\ ticks_sent' = ticks_sent + 1
            /\ ticks_sent' = Len(offsets)
            /\ offsets' = offsets
            /\ DurLe(offsets[ticks_sent'], DurFromMillis(clock))]_vars

\* Both ticks of a two-offset schedule have been sent and the timer ended.
C18_Witness ==
    /\ args.rate = 2
    /\ ticks_sent = 2
    /\ timer_result = "Ok"

(***************************************************************************)
(* C19. The user channel never holds more than num_users tokens and has    *)
(* room whenever a task is about to give its token back; a task whose      *)
(* request did not panic never panics afterwards; and once the aggregator  *)
(* has seen the record channel closed, every task that did not panic has   *)
(* ended and its Record is in the log, also when its token could not be    *)
(* given back.                                                             *)
(***************************************************************************)
C19_TokenReturnBestEffort ==
    /\ Len(user_chan) <= args.num_users
    /\ \A i \in TaskIds :
           (tasks[i].pc = "return" /\ spawner_pc # "ended") =>
               Len(user_chan) < args.num_users
    /\ \A i \in Panicked : Panics(tasks[i].outcome)
    /\ AfterRecvLoop =>
           \A i \in TaskIds \ Panicked :
               /\ tasks[i].pc = "done"
               /\ CountOf(i, bench_log.records) = 1

\* A run has returned without a panic, at least one token was lost to the
\* dropped user_rx, and every request's Record was received.
C19_Witness ==
    /\ main_pc = "returned"
    /\ Panicked = { }
    /\ Len(tasks) >= 1
    /\ Len(user_chan) < args.num_users
    /\ num_received = Len(tasks)

(***************************************************************************)
(* C20. No Record on the record channel or in the log has both flags set,  *)
(* and one with timeout set has no status; the log's timeouts + errors is  *)
(* the number of its Records with a flag set, and errors() <= total().     *)
(***************************************************************************)
C20_FlagsExclusive ==
    /\ \A k \in 1 .. Len(record_chan \o bench_log.records) :
           LET r == (record_chan \o bench_log.records)[k] IN
               /\ ~(r.timeout /\ r.error)
               /\ r.timeout => r.status = "None"
    /\ bench_log.timeouts + bench_log.errors = Flagged(bench_log.records)
    /\ errors(bench_log) = Flagged(bench_log.records)
    /\ errors(bench_log) <= total(bench_log)

\* The log holds a timed-out Record and a failed one.
C20_Witness ==
    /\ bench_log.timeouts = 1
    /\ bench_log.errors = 1
    /\ total(bench_log) = 2

\* The number of calls of HotGenerator::next that returned true.
HotCount == Cardinality({ k \in 1 .. Len(hot_answers) : hot_answers[k] })

\* |hot calls - N * hot_percent| < 1, in units of 1/HotDen
HotCountNearExpected ==
    /\ HotCount * HotDen - Len(hot_answers) * hot_gen.hot_percent < HotDen
    /\ Len(hot_answers) * hot_gen.hot_percent - HotCount * HotDen < HotDen

\* 0 <= request_counter < 1.0
CounterBelowOne ==
    /\ hot_gen.request_counter.units >= 0
    /\ ~F64GeOne(hot_gen.request_counter)

(***************************************************************************)
(* C11. After any number N of calls of HotGenerator::next the number of    *)
(* calls that returned hot differs from N * hot_percent by less than 1 and *)
(* the counter is in [0, 1); with hot_percent = 1.0 every call returns     *)
(* hot, with hot_percent = 0 none does.                                    *)
(***************************************************************************)
C11_HotFraction ==
    /\ HotCountNearExpected
    /\ CounterBelowOne
    /\ hot_gen.hot_percent = HotDen =>
           \A k \in 1 .. Len(hot_answers) : hot_answers[k]
    /\ hot_gen.hot_percent = 0 =>
           \A k \in 1 .. Len(hot_answers) : ~hot_answers[k]

(***************************************************************************)
(* C11, amended. When the initial counter is a multiple of 1/HotDen, as    *)
(* hot_percent is, every sum is exact: the number of hot calls differs     *)
(* from N * hot_percent by less than 1 and the counter is in [0, 1) after  *)
(* every call. For every initial counter the counter stays in [0, 1],      *)
(* hot_percent = 1.0 makes every call hot and hot_percent = 0 makes none   *)
(* hot.                                                                    *)
(***************************************************************************)
C11_HotFractionExactSums ==
    /\ hot_seed.less = 0 => (HotCountNearExpected /\ CounterBelowOne)
    /\ hot_gen.request_counter.units >= 0
    /\ hot_gen.request_counter.units <= HotDen
    /\ hot_gen.hot_percent = HotDen =>
           \A k \in 1 .. Len(hot_answers) : hot_answers[k]
    /\ hot_gen.hot_percent = 0 =>
           \A k \in 1 .. Len(hot_answers) : ~hot_answers[k]

\* Half of the calls are hot: hot_percent = 0.5, exact initial counter, an
\* even number of calls, the last of them hot.
C11_Witness ==
    /\ hot_seed.less = 0
    /\ hot_gen.hot_percent * 2 = HotDen
    /\ Len(hot_answers) = 2 * (MaxCalls \div 2)
    /\ HotCount * 2 = Len(hot_answers)
    /\ hot_answers[Len(hot_answers)]

\* The durations of the Records in the log, in the order they were added.
Samples == [k \in 1 .. Len(bench_log.records) |-> bench_log.records[k].duration]

\* v is the element at `index` (from 0) of the samples in ascending order:
\* fewer than index + 1 samples are below v, at least index + 1 are <= v.
IsAtSortedIndex(v, index) ==
    /\ \E k \in 1 .. Len(Samples) : Samples[k] = v
    /\ Cardinality({ k \in 1 .. Len(Samples) : Samples[k] < v }) <= index
    /\ Cardinality({ k \in 1 .. Len(Samples) : Samples[k] <= v }) > index

\* clamp(floor((N * p - 1) / 100), 0, N - 1), p in tenths of a percent
ClampedIndex(n, p) ==
    LET x == (n * p - 10) \div 1000 IN
    IF x < 0 THEN 0 ELSE IF x > n - 1 THEN n - 1 ELSE x

(***************************************************************************)
(* C12. For a log of N >= 1 samples, each entry of the percentile table is *)
(* the element of the samples in ascending order at index                  *)
(* clamp(floor((N * p - 1) / 100), 0, N - 1), the index the code computes  *)
(* is that index and lies in 0 .. N - 1, and the entry for p = 100 is the  *)
(* largest sample.                                                         *)
(***************************************************************************)
C12_PercentileIndex ==
    (main_pc = "await" /\ Len(Samples) >= 1) =>
        /\ Len(printed) = Len(Percentages)
        /\ \A j \in 1 .. Len(Percentages) :
               /\ PercentileIndex(Len(Samples), Percentages[j])
                      = ClampedIndex(Len(Samples), Percentages[j])
               /\ PercentileIndex(Len(Samples), Percentages[j])
                      \in 0 .. Len(Samples) - 1
               /\ IsAtSortedIndex(printed[j],
                      ClampedIndex(Len(Samples), Percentages[j]))
        /\ \A k \in 1 .. Len(Samples) : Samples[k] <= printed[Len(Percentages)]
        /\ \E k \in 1 .. Len(Samples) : Samples[k] = printed[Len(Percentages)]

\* The table was taken of MaxSamples samples added in descending order from
\* MaxLatency to 1: the median is neither the first nor the last sample
\* added, and the entry for 100 is the first.
C12_Witness ==
    /\ main_pc = "await"
    /\ Len(Samples) = MaxSamples
    /\ Samples[1] = MaxLatency
    /\ Samples[MaxSamples] = 1
    /\ printed[Len(Percentages)] = MaxLatency
    /\ printed[1] > 1
    /\ printed[1] < MaxLatency

\* The timer's sleep is over and it waits for room in the step channel.
TimerBlocked ==
    /\ timer_pc = "sleep"
    /\ DurLe(timer_next, DurFromMillis(clock))
    /\ step_chan >= STEP_CHANNEL_CAP

\* The spawner loop holds a tick and waits for a token.
SpawnerSuspended == spawner_pc = "acquire" /\ user_chan = << >>

(***************************************************************************)
(* C17. When the target is saturated and nothing else delays the run, the  *)
(* timer never returns the overload error.                                 *)
(***************************************************************************)
C17_PoolExhaustionNoOverload == timer_result # "Err"

(***************************************************************************)
(* C17, amended. When the target is saturated and nothing else delays the  *)
(* run: a request is issued only with a token taken from the pool, and     *)
(* while the spawner waits for a token all num_users requests are          *)
(* outstanding; the timer is never kept from sending a due tick while the  *)
(* step channel has room; and the overload error comes only after more     *)
(* than STEP_CHANNEL_CAP ticks were sent, that is, after the step channel  *)
(* was full.                                                               *)
(***************************************************************************)
C17_OverloadOnlyAfterFullChannel ==
    /\ [](SpawnerSuspended => Cardinality(Outstanding) = args.num_users)
    /\ []((timer_pc = "sleep" /\ DurLe(timer_next, DurFromMillis(clock))
              /\ ~TimerBlocked) => ENABLED TimerSend)
    /\ [](timer_result = "Err" => ticks_sent > STEP_CHANNEL_CAP)
    /\ [](ticks_sent <= STEP_CHANNEL_CAP => timer_result = "running")
    /\ [][Len(tasks') > Len(tasks) =>
            /\ user_chan # << >>
            /\ user_chan' = Tail(user_chan)
            /\ Len(tasks') = Len(tasks) + 1]_vars

\* The first num_users requests were answered late, their tokens came back
\* and were used for further requests, and the timer, which had sent more
\* ticks than the step channel holds, has returned the overload error.
C17_Witness ==
    /\ timer_result = "Err"
    /\ ticks_sent > STEP_CHANNEL_CAP + args.num_users
    /\ Len(tasks) > args.num_users
    /\ \A i \in 1 .. args.num_users : tasks[i].pc = "done"

====
